---- MODULE Spec2Model ----
(***************************************************************************)
(* Nine Men's Morris rules engine (src/src/nmm.rs): the Game struct, its   *)
(* action / undo / winner operations and the static board topology.        *)
(***************************************************************************)
EXTENDS Integers, Sequences, FiniteSets, TLC

VARIABLES board, to_move, unplaced, removed, must_remove, history, last, marks, base,
          text, parsed

vars == <<board, to_move, unplaced, removed, must_remove, history, last, marks, base,
          text, parsed>>

(* ------------------------------ bounds --------------------------------- *)

\* how many snapshots a run may push on top of the position it starts from
MaxDepth == 1

\* how many whitespace-separated tokens a text handed to from_str may hold
MaxTokens == 4

(* ------------------------- colours and points -------------------------- *)

White == "White"
Black == "Black"
Color == {White, Black}
\* Option::None, for a board slot and for must_remove
None == "None"

\* number of board slots
NumPoints == 24
\* the padding value of the NEIGHBORS table, the first value that is no point
INVALID == 24
Points == 0 .. (NumPoints - 1)
\* the points a caller may name: every real point, and the out-of-range INVALID
PointArgs == 0 .. INVALID

opposite(c) == IF c = Black THEN White ELSE Black

color_idx(c) == IF c = White THEN 0 ELSE 1

(* ------------------------------ actions -------------------------------- *)

Place(pl, p) == [player |-> pl, kind |-> "Place", from |-> p, to |-> p]
Move(pl, f, t) == [player |-> pl, kind |-> "Move", from |-> f, to |-> t]
Remove(pl, p) == [player |-> pl, kind |-> "Remove", from |-> p, to |-> p]

ActionKind ==
    {Place(White, p) : p \in PointArgs} \cup {Remove(White, p) : p \in PointArgs}
        \cup {Move(White, f, t) : f \in PointArgs, t \in PointArgs}

Action == {[a EXCEPT !.player = pl] : a \in ActionKind, pl \in Color}

(* --------------------------- board topology ---------------------------- *)

MILLS ==
    << <<0, 1, 2>>, <<2, 3, 4>>, <<4, 5, 6>>, <<6, 7, 0>>,
       <<8, 9, 10>>, <<10, 11, 12>>, <<12, 13, 14>>, <<14, 15, 8>>,
       <<16, 17, 18>>, <<18, 19, 20>>, <<20, 21, 22>>, <<22, 23, 16>>,
       <<1, 9, 17>>, <<3, 11, 19>>, <<5, 13, 21>>, <<7, 15, 23>> >>

\* NEIGHBORS[p + 1] is the row of point p
NEIGHBORS ==
    << <<1, 7, INVALID, INVALID>>,
       <<0, 2, 9, INVALID>>,
       <<1, 3, INVALID, INVALID>>,
       <<2, 4, 11, INVALID>>,
       <<3, 5, INVALID, INVALID>>,
       <<4, 6, 13, INVALID>>,
       <<5, 7, INVALID, INVALID>>,
       <<0, 6, 15, INVALID>>,
       <<INVALID, 9, 15, 16>>,
       <<1, 8, 10, 17>>,
       <<INVALID, 9, 11, 18>>,
       <<3, 10, 12, 19>>,
       <<INVALID, 11, 13, 20>>,
       <<5, 12, 14, 21>>,
       <<INVALID, 13, 15, 22>>,
       <<7, 8, 14, 23>>,
       <<INVALID, 17, 23, INVALID>>,
       <<9, 16, 18, INVALID>>,
       <<INVALID, 17, 19, INVALID>>,
       <<11, 18, 20, INVALID>>,
       <<INVALID, 19, 21, INVALID>>,
       <<13, 20, 22, INVALID>>,
       <<INVALID, 21, 23, INVALID>>,
       <<15, 16, 22, INVALID>> >>

\* the board of the diagram: two points joined by a line segment, which are the
\* first-middle and middle-last pairs of the sixteen drawn lines
DiagramAdjacent(a, b) ==
    \E i \in 1 .. Len(MILLS) :
        \/ {a, b} = {MILLS[i][1], MILLS[i][2]}
        \/ {a, b} = {MILLS[i][2], MILLS[i][3]}

(* --------------------------- helper methods ---------------------------- *)

\* a game value g is the record of the fields of struct Game
ThisGame ==
    [board |-> board, to_move |-> to_move, unplaced |-> unplaced,
     removed |-> removed, must_remove |-> must_remove, history |-> history]

\* variant of snapshot that does not record the pending removal
snapshot_NoPending(g) ==
    [board |-> g.board, to_move |-> g.to_move, unplaced |-> g.unplaced,
     removed |-> g.removed, must_remove |-> None]

snapshot(g) ==
    [board |-> g.board, to_move |-> g.to_move, unplaced |-> g.unplaced,
     removed |-> g.removed, must_remove |-> g.must_remove]

\* variant of forms_mill without the test that the line holds the point
forms_mill_AnyLine(g, point, color) ==
    \E i \in 1 .. Len(MILLS) :
        /\ g.board[MILLS[i][1]] = color
        /\ g.board[MILLS[i][2]] = color
        /\ g.board[MILLS[i][3]] = color

forms_mill(g, point, color) ==
    \E i \in 1 .. Len(MILLS) :
        /\ \E k \in 1 .. 3 : MILLS[i][k] = point
        /\ g.board[MILLS[i][1]] = color
        /\ g.board[MILLS[i][2]] = color
        /\ g.board[MILLS[i][3]] = color

point_in_mill(g, point) ==
    IF g.board[point] # None THEN forms_mill(g, point, g.board[point]) ELSE FALSE

\* variant of all_pieces_in_mills that is content with one piece in a mill
all_pieces_in_mills_SomePiece(g, color) ==
    \E i \in Points : g.board[i] = color /\ point_in_mill(g, i)

all_pieces_in_mills(g, color) ==
    \A i \in Points : ~(g.board[i] = color /\ ~point_in_mill(g, i))

count_pieces(g, color) == Cardinality({p \in Points : g.board[p] = color})

are_adjacent(from, to) == \E k \in 1 .. 4 : NEIGHBORS[from + 1][k] = to

check_point(p) == p < NumPoints

\* Result<(), &str> together with the game the call leaves behind
Ok(g) == [ok |-> TRUE, err |-> "", g |-> g]
Err(msg, g) == [ok |-> FALSE, err |-> msg, g |-> g]

(* ------------------------------- new ----------------------------------- *)

\* variant of new in which Black begins
new_BlackBegins ==
    [board |-> [p \in Points |-> None], to_move |-> Black,
     unplaced |-> [i \in 0 .. 1 |-> 9], removed |-> [i \in 0 .. 1 |-> 0],
     must_remove |-> None, history |-> << >>]

new ==
    [board |-> [p \in Points |-> None], to_move |-> White,
     unplaced |-> [i \in 0 .. 1 |-> 9], removed |-> [i \in 0 .. 1 |-> 0],
     must_remove |-> None, history |-> << >>]

(* ------------------------------ action --------------------------------- *)

\* the closure can_remove: some opponent piece may be captured
can_remove(g, opponent) ==
    LET all_opponent_in_mills == all_pieces_in_mills(g, opponent)
    IN  \E i \in Points :
            IF g.board[i] = opponent
            THEN all_opponent_in_mills \/ ~point_in_mill(g, i)
            ELSE FALSE

\* variant of settle_mill that passes the turn also when a removal is owed
settle_mill_AlwaysPasses(g, p, player) ==
    IF forms_mill(g, p, player) /\ can_remove(g, opposite(player))
    THEN [g EXCEPT !.must_remove = player, !.to_move = opposite(player)]
    ELSE [g EXCEPT !.to_move = opposite(player)]

\* what Place and Move do once the piece of player stands on p
settle_mill(g, p, player) ==
    IF forms_mill(g, p, player)
    THEN IF can_remove(g, opposite(player))
         THEN [g EXCEPT !.must_remove = player]
         ELSE [g EXCEPT !.to_move = opposite(player)]
    ELSE [g EXCEPT !.to_move = opposite(player)]

\* variant of action_Remove that counts the capture for the remover
action_Remove_CountsForRemover(g, a) ==
    LET p == a.from
        opponent == opposite(a.player)
        pushed == [g EXCEPT !.history = Append(g.history, snapshot(g))]
    IN  IF ~check_point(p) THEN Err("Point out of range", g)
        ELSE IF pushed.board[p] # opponent
        THEN Err("Can only remove opponent piece", pushed)
        ELSE IF ~all_pieces_in_mills(pushed, opponent) /\ point_in_mill(pushed, p)
        THEN Err("Cannot remove a piece in a mill",
                 [pushed EXCEPT !.history = SubSeq(pushed.history, 1, Len(pushed.history) - 1)])
        ELSE Ok([pushed EXCEPT !.board[p] = None,
                               !.removed[color_idx(a.player)] = @ + 1,
                               !.must_remove = None,
                               !.to_move = opponent])

\* variant of action_Remove that never lets a piece in a mill be captured
action_Remove_NoExemption(g, a) ==
    LET p == a.from
        opponent == opposite(a.player)
        opp_idx == color_idx(opponent)
        pushed == [g EXCEPT !.history = Append(g.history, snapshot(g))]
    IN  IF ~check_point(p) THEN Err("Point out of range", g)
        ELSE IF pushed.board[p] # opponent
        THEN Err("Can only remove opponent piece", pushed)
        ELSE IF point_in_mill(pushed, p)
        THEN Err("Cannot remove a piece in a mill",
                 [pushed EXCEPT !.history = SubSeq(pushed.history, 1, Len(pushed.history) - 1)])
        ELSE Ok([pushed EXCEPT !.board[p] = None,
                               !.removed[opp_idx] = @ + 1,
                               !.must_remove = None,
                               !.to_move = opponent])

\* the Remove arm while a removal is owed; the snapshot is pushed first
action_Remove(g, a) ==
    LET p == a.from
        opponent == opposite(a.player)
        opp_idx == color_idx(opponent)
        pushed == [g EXCEPT !.history = Append(g.history, snapshot(g))]
    IN  IF ~check_point(p) THEN Err("Point out of range", g)
        ELSE IF pushed.board[p] # opponent
        THEN Err("Can only remove opponent piece", pushed)
        ELSE IF ~all_pieces_in_mills(pushed, opponent) /\ point_in_mill(pushed, p)
        THEN Err("Cannot remove a piece in a mill",
                 [pushed EXCEPT !.history = SubSeq(pushed.history, 1, Len(pushed.history) - 1)])
        ELSE Ok([pushed EXCEPT !.board[p] = None,
                               !.removed[opp_idx] = @ + 1,
                               !.must_remove = None,
                               !.to_move = opponent])

\* variant of action_Place that does not count the piece as placed
action_Place_NoDecrement(g, a) ==
    LET p == a.from
        idx == color_idx(a.player)
    IN  IF ~check_point(p) THEN Err("Point out of range", g)
        ELSE IF g.unplaced[idx] = 0 THEN Err("No pieces left to place", g)
        ELSE IF g.board[p] # None THEN Err("Point already occupied", g)
        ELSE LET placed == [g EXCEPT !.history = Append(g.history, snapshot(g)),
                                     !.board[p] = a.player]
             IN  Ok(settle_mill(placed, p, a.player))

\* variant of action_Place that overwrites an occupied point
action_Place_NoOccupiedCheck(g, a) ==
    LET p == a.from
        idx == color_idx(a.player)
    IN  IF ~check_point(p) THEN Err("Point out of range", g)
        ELSE IF g.unplaced[idx] = 0 THEN Err("No pieces left to place", g)
        ELSE LET placed == [g EXCEPT !.history = Append(g.history, snapshot(g)),
                                     !.board[p] = a.player,
                                     !.unplaced[idx] = @ - 1]
             IN  Ok(settle_mill(placed, p, a.player))

\* variant of action_Place that clamps an out-of-range point to the last point
action_Place_Clamped(g, a) ==
    LET p == IF a.from >= NumPoints THEN NumPoints - 1 ELSE a.from
        idx == color_idx(a.player)
    IN  IF g.unplaced[idx] = 0 THEN Err("No pieces left to place", g)
        ELSE IF g.board[p] # None THEN Err("Point already occupied", g)
        ELSE LET placed == [g EXCEPT !.history = Append(g.history, snapshot(g)),
                                     !.board[p] = a.player,
                                     !.unplaced[idx] = @ - 1]
             IN  Ok(settle_mill(placed, p, a.player))

action_Place(g, a) ==
    LET p == a.from
        idx == color_idx(a.player)
    IN  IF ~check_point(p) THEN Err("Point out of range", g)
        ELSE IF g.unplaced[idx] = 0 THEN Err("No pieces left to place", g)
        ELSE IF g.board[p] # None THEN Err("Point already occupied", g)
        ELSE LET placed == [g EXCEPT !.history = Append(g.history, snapshot(g)),
                                     !.board[p] = a.player,
                                     !.unplaced[idx] = @ - 1]
             IN  Ok(settle_mill(placed, p, a.player))

\* variant of action_Move that tests adjacency after the piece has moved
action_Move_LateAdjacency(g, a) ==
    LET from == a.from
        to == a.to
        idx == color_idx(a.player)
    IN  IF ~check_point(from) \/ ~check_point(to) THEN Err("Point out of range", g)
        ELSE IF g.unplaced[idx] > 0 THEN Err("Must place all pieces before moving", g)
        ELSE IF g.board[from] # a.player THEN Err("No piece of this player at source", g)
        ELSE IF g.board[to] # None THEN Err("Destination not empty", g)
        ELSE LET moved == [g EXCEPT !.board[from] = None, !.board[to] = a.player]
             IN  IF ~(count_pieces(g, a.player) = 3) /\ ~are_adjacent(from, to)
                 THEN Err("Points not adjacent", moved)
                 ELSE Ok(settle_mill([moved EXCEPT !.history = Append(g.history, snapshot(g))],
                                     to, a.player))

action_Move(g, a) ==
    LET from == a.from
        to == a.to
        idx == color_idx(a.player)
    IN  IF ~check_point(from) \/ ~check_point(to) THEN Err("Point out of range", g)
        ELSE IF g.unplaced[idx] > 0 THEN Err("Must place all pieces before moving", g)
        ELSE IF g.board[from] # a.player THEN Err("No piece of this player at source", g)
        ELSE IF g.board[to] # None THEN Err("Destination not empty", g)
        ELSE IF ~(count_pieces(g, a.player) = 3) /\ ~are_adjacent(from, to)
        THEN Err("Points not adjacent", g)
        ELSE LET moved == [g EXCEPT !.history = Append(g.history, snapshot(g)),
                                    !.board[from] = None,
                                    !.board[to] = a.player]
             IN  Ok(settle_mill(moved, to, a.player))

\* variant of action that lets either player answer an owed removal
action_NoWaiterCheck(g, a) ==
    IF g.must_remove # None
    THEN IF a.kind = "Remove" THEN action_Remove(g, a)
         ELSE Err("Must remove a piece", g)
    ELSE IF a.player # g.to_move THEN Err("Not this player's turn", g)
         ELSE IF a.kind = "Place" THEN action_Place(g, a)
         ELSE IF a.kind = "Move" THEN action_Move(g, a)
         ELSE Err("Remove not allowed now", g)

action(g, a) ==
    IF g.must_remove # None
    THEN IF a.player # g.must_remove THEN Err("This player must remove", g)
         ELSE IF a.kind = "Remove" THEN action_Remove(g, a)
         ELSE Err("Must remove a piece", g)
    ELSE IF a.player # g.to_move THEN Err("Not this player's turn", g)
         ELSE IF a.kind = "Place" THEN action_Place(g, a)
         ELSE IF a.kind = "Move" THEN action_Move(g, a)
         ELSE Err("Remove not allowed now", g)

(* -------------------------------- undo --------------------------------- *)

\* variant of undo that does not restore the pending removal
undo_KeepsPending(g) ==
    IF Len(g.history) > 0
    THEN LET snap == g.history[Len(g.history)]
         IN  Ok([board |-> snap.board, to_move |-> snap.to_move,
                 unplaced |-> snap.unplaced, removed |-> snap.removed,
                 must_remove |-> g.must_remove,
                 history |-> SubSeq(g.history, 1, Len(g.history) - 1)])
    ELSE Err("No action to undo", g)

undo(g) ==
    IF Len(g.history) > 0
    THEN LET snap == g.history[Len(g.history)]
         IN  Ok([board |-> snap.board, to_move |-> snap.to_move,
                 unplaced |-> snap.unplaced, removed |-> snap.removed,
                 must_remove |-> snap.must_remove,
                 history |-> SubSeq(g.history, 1, Len(g.history) - 1)])
    ELSE Err("No action to undo", g)

(* ------------------------------ from_str ------------------------------- *)

\* the tokens a text is made of: player and action letters, integers, and one
\* token that is no integer
Tokens == {"W", "B", "P", "M", "R", "0", "7", "24", "x"}

\* str::parse::<usize> on the tokens: the value of those that are integers
Integral == [tok \in {"0", "7", "24"} |-> IF tok = "0" THEN 0 ELSE IF tok = "7" THEN 7 ELSE 24]

parse_point(tok) ==
    IF tok \in DOMAIN Integral
    THEN [ok |-> TRUE, value |-> Integral[tok]]
    ELSE [ok |-> FALSE, value |-> 0]

ParseOk(a) == [ok |-> TRUE, err |-> "", action |-> a]
ParseErr(msg) == [ok |-> FALSE, err |-> msg, action |-> [player |-> "None", kind |-> "None", from |-> 0, to |-> 0]]

\* from_str on the tokens split_whitespace yields
from_str(parts) ==
    IF Len(parts) < 3 THEN ParseErr("Invalid action format")
    ELSE IF parts[1] \notin {"W", "B"} THEN ParseErr("Invalid player")
    ELSE LET player == IF parts[1] = "W" THEN White ELSE Black
         IN  IF parts[2] = "P"
             THEN IF ~parse_point(parts[3]).ok THEN ParseErr("Invalid point")
                  ELSE ParseOk(Place(player, parse_point(parts[3]).value))
             ELSE IF parts[2] = "M"
             THEN IF Len(parts) # 4 THEN ParseErr("Invalid move format")
                  ELSE IF ~parse_point(parts[3]).ok THEN ParseErr("Invalid from point")
                  ELSE IF ~parse_point(parts[4]).ok THEN ParseErr("Invalid to point")
                  ELSE ParseOk(Move(player, parse_point(parts[3]).value,
                                    parse_point(parts[4]).value))
             ELSE IF parts[2] = "R"
             THEN IF ~parse_point(parts[3]).ok THEN ParseErr("Invalid point")
                  ELSE ParseOk(Remove(player, parse_point(parts[3]).value))
             ELSE ParseErr("Invalid action type")

(* ------------------------------- winner -------------------------------- *)

\* whether player has a placement or a move to make
player_can_move(g, player) ==
    LET idx == color_idx(player)
        pieces == count_pieces(g, player)
    IN  IF g.unplaced[idx] > 0
        THEN \E p \in Points : g.board[p] = None
        ELSE IF pieces = 3
        THEN (\E p \in Points : g.board[p] = player) /\ (\E p \in Points : g.board[p] = None)
        ELSE \E from \in Points :
                /\ g.board[from] = player
                /\ \E k \in 1 .. 4 :
                    LET n == NEIGHBORS[from + 1][k]
                    IN  IF n < NumPoints THEN g.board[n] = None ELSE FALSE

\* variant of winner that reads a counter as the captures its colour has made
winner_CountsCaptor(g) ==
    IF g.removed[color_idx(Black)] >= 7 THEN Black
    ELSE IF g.removed[color_idx(White)] >= 7 THEN White
    ELSE IF ~player_can_move(g, g.to_move) THEN opposite(g.to_move)
    ELSE None

\* Option<Player>: the winning colour, or None
winner(g) ==
    IF g.removed[color_idx(Black)] >= 7 THEN White
    ELSE IF g.removed[color_idx(White)] >= 7 THEN Black
    ELSE IF ~player_can_move(g, g.to_move) THEN opposite(g.to_move)
    ELSE None

(* --------------------------- opening lines ----------------------------- *)

RECURSIVE Replay(_, _)
\* the game after the calls of script, each applied with action, from game g
Replay(g, script) ==
    IF script = << >> THEN g
    ELSE Replay(action(g, Head(script)).g, Tail(script))

\* W places towards the line 0-1-2 while B answers on 8 and 9
OpenMill ==
    << Place(White, 0), Place(Black, 8), Place(White, 1), Place(Black, 9) >>

\* B has closed 8-9-10 and captured; every B piece stands in that one mill
AllInMill ==
    OpenMill \o << Place(White, 23), Place(Black, 10), Remove(Black, 23) >>

\* as AllInMill, with one more B piece outside the mill
MillAndLoose ==
    AllInMill \o << Place(White, 20), Place(Black, 13) >>

\* all eighteen pieces placed without a mill; W to move with nine pieces
Placed ==
    << Place(White, 1), Place(Black, 3), Place(White, 4), Place(Black, 14),
       Place(White, 8), Place(Black, 13), Place(White, 12), Place(Black, 10),
       Place(White, 2), Place(Black, 18), Place(White, 21), Place(Black, 6),
       Place(White, 17), Place(Black, 23), Place(White, 20), Place(Black, 22),
       Place(White, 11), Place(Black, 15) >>

\* B has captured six times; W to move with three pieces and none to place
ThreeLeft ==
    << Place(White, 8), Place(Black, 18), Place(White, 0), Place(Black, 6),
       Place(White, 2), Place(Black, 17), Place(White, 13), Place(Black, 16),
       Remove(Black, 0), Place(White, 14), Place(Black, 7), Place(White, 10),
       Place(Black, 0), Remove(Black, 13), Place(White, 1), Place(Black, 19),
       Place(White, 21), Place(Black, 20), Remove(Black, 1), Place(White, 5),
       Place(Black, 9), Move(White, 2, 3), Move(Black, 0, 1), Remove(Black, 8),
       Move(White, 5, 4), Move(Black, 1, 0), Remove(Black, 14),
       Move(White, 3, 11), Move(Black, 0, 1), Remove(Black, 11) >>

\* W has closed 0-1-2 and owes a removal
MillClosed == OpenMill \o << Place(White, 2) >>

\* W has closed 0-1-2 against a B whose every piece stands in a mill
AllInMillClosed == AllInMill \o << Place(White, 2) >>

\* W has closed 0-1-2 against a B with a mill and a piece outside it
MillAndLooseClosed == MillAndLoose \o << Place(White, 2) >>

\* B has captured a seventh time; W to move with two pieces
TwoLeft ==
    ThreeLeft \o << Move(White, 4, 3), Move(Black, 1, 0), Remove(Black, 3) >>

\* sixteen pieces placed without a mill, the outer ring empty but for 7; W to
\* place its last piece, and 16 closes the line 16-17-18
Cornered ==
    << Place(White, 8), Place(Black, 7), Place(White, 10), Place(Black, 9),
       Place(White, 12), Place(Black, 11), Place(White, 15), Place(Black, 13),
       Place(White, 17), Place(Black, 14), Place(White, 18), Place(Black, 19),
       Place(White, 20), Place(Black, 21), Place(White, 23), Place(Black, 22) >>

Openings ==
    {<< >>, OpenMill, MillClosed, AllInMill, AllInMillClosed, MillAndLoose,
     MillAndLooseClosed, Placed, ThreeLeft, TwoLeft, Cornered}

(* ---------------------------- state machine ---------------------------- *)

\* the fields of a game other than its history
CoreOf(g) == <<g.board, g.to_move, g.unplaced, g.removed, g.must_remove>>

\* Bookkeeping of the calls, beside the fields of Game.
\* last: the latest call, its result and, when it was accepted, its action;
\*       of a rejected action only whether it named a point out of range.
\* marks[i]: what pushed history[i]: whether that call returned Ok, and the
\*           fields of the game just before it.
\* base: Len(history) of the position the run started from.
\* text: the tokens handed to from_str; parsed: what it returned, if called.
NotParsed == [ok |-> FALSE, err |-> "not called", action |-> [player |-> "None", kind |-> "None", from |-> 0, to |-> 0]]

NoAct == [player |-> None, kind |-> None, from |-> 0, to |-> 0]
\* what last keeps of a rejected call that named a point out of range
FarAct == [player |-> None, kind |-> None, from |-> INVALID, to |-> INVALID]

Init ==
    \E script \in Openings :
        LET g == Replay(new, script)
        IN  /\ board = g.board
            /\ to_move = g.to_move
            /\ unplaced = g.unplaced
            /\ removed = g.removed
            /\ must_remove = g.must_remove
            /\ history = g.history
            /\ marks = [i \in 1 .. Len(script) |->
                            [ok |-> TRUE,
                             before |-> CoreOf(Replay(new, SubSeq(script, 1, i - 1)))]]
            /\ base = Len(g.history)
            /\ last = [op |-> "new", ok |-> TRUE, act |-> NoAct]
            /\ text = << >>
            /\ parsed = NotParsed

Become(g) ==
    /\ board' = g.board
    /\ to_move' = g.to_move
    /\ unplaced' = g.unplaced
    /\ removed' = g.removed
    /\ must_remove' = g.must_remove
    /\ history' = g.history

InPlay == base <= Len(history) /\ Len(history) < base + MaxDepth

DoAction ==
    /\ InPlay
    /\ \E a \in Action :
        LET r == action(ThisGame, a)
        IN  /\ Become(r.g)
            /\ marks' = IF Len(r.g.history) > Len(history)
                        THEN Append(marks, [ok |-> r.ok, before |-> CoreOf(ThisGame)])
                        ELSE marks
            /\ last' = [op |-> "action", ok |-> r.ok,
                        act |-> IF r.ok THEN a
                                ELSE IF a.from >= NumPoints \/ a.to >= NumPoints THEN FarAct
                                ELSE NoAct]
            /\ UNCHANGED <<base, text, parsed>>

DoUndo ==
    LET r == undo(ThisGame)
    IN  /\ Become(r.g)
        /\ marks' = IF r.ok THEN SubSeq(marks, 1, Len(marks) - 1) ELSE marks
        /\ last' = [op |-> "undo", ok |-> r.ok, act |-> NoAct]
        /\ UNCHANGED <<base, text, parsed>>

Next == DoAction \/ DoUndo

Spec == Init /\ [][Next]_vars

(* ------------------------- parsing on its own -------------------------- *)

RECURSIVE TextsOf(_)
\* the token sequences of length n
TextsOf(n) ==
    IF n = 0 THEN {<< >>}
    ELSE {Append(t, tok) : t \in TextsOf(n - 1), tok \in Tokens}

Texts == UNION {TextsOf(n) : n \in 0 .. MaxTokens}

\* a fresh game beside a text that from_str has not yet seen
ParseInit ==
    /\ board = new.board
    /\ to_move = new.to_move
    /\ unplaced = new.unplaced
    /\ removed = new.removed
    /\ must_remove = new.must_remove
    /\ history = new.history
    /\ marks = << >>
    /\ base = 0
    /\ last = [op |-> "new", ok |-> TRUE, act |-> NoAct]
    /\ text \in Texts
    /\ parsed = NotParsed

DoParse ==
    /\ parsed = NotParsed
    /\ parsed' = from_str(text)
    /\ UNCHANGED <<board, to_move, unplaced, removed, must_remove, history,
                   last, marks, base, text>>

ParseNext == DoParse

ParseSpec == ParseInit /\ [][ParseNext]_vars

(* ------------------------ notions of the claims ------------------------ *)

\* the number of c pieces on board b
PiecesOn(b, c) == Cardinality({p \in Points : b[p] = c})

\* the three points of line i
Line(i) == {MILLS[i][1], MILLS[i][2], MILLS[i][3]}

\* c occupies all three points of some line through p
MillThrough(b, p, c) ==
    \E i \in 1 .. Len(MILLS) : p \in Line(i) /\ \A q \in Line(i) : b[q] = c

\* the piece on p is part of a completed mill of its owner
Protected(b, p) == b[p] # None /\ MillThrough(b, p, b[p])

\* p holds a piece of owner that may be captured
Removable(b, p, owner) ==
    /\ p \in Points
    /\ b[p] = owner
    /\ \/ ~Protected(b, p)
       \/ \A q \in Points : b[q] = owner => Protected(b, q)

\* the indices of the snapshots pushed by accepted calls
Accepted == {i \in 1 .. Len(marks) : marks[i].ok}

RECURSIVE UndoN(_, _)
\* the game after k calls of undo
UndoN(g, k) == IF k = 0 THEN g ELSE UndoN(undo(g).g, k - 1)

RECURSIVE UndoOk(_, _)
\* every one of k calls of undo returns Ok
UndoOk(g, k) == IF k = 0 THEN TRUE ELSE undo(g).ok /\ UndoOk(undo(g).g, k - 1)

(* ------------------------------ claims --------------------------------- *)

\* C1: in every reachable state and for every action (either player, any kind,
\* any points, in range or not): if action returns an error, then board,
\* to_move, unplaced, removed and must_remove are what they were before.
C1_RejectedActionKeepsState ==
    \A a \in Action :
        LET r == action(ThisGame, a)
        IN  ~r.ok => CoreOf(r.g) = CoreOf(ThisGame)

\* an action has just been rejected while a removal was owed
C1_Witness == last.op = "action" /\ ~last.ok /\ must_remove # None

\* C2 as stated: for each colour c, unplaced[c] + pieces of c on the board +
\* removed[opposite(c)] = 9.
C2_ConservationOppositeCounter ==
    \A c \in Color :
        unplaced[color_idx(c)] + PiecesOn(board, c) + removed[color_idx(opposite(c))] = 9

\* C2 amended: for each colour c, unplaced[c] + pieces of c on the board +
\* removed[c] = 9: the counter of c counts the pieces c has lost.
C2_ConservationOwnCounter ==
    \A c \in Color :
        unplaced[color_idx(c)] + PiecesOn(board, c) + removed[color_idx(c)] = 9

\* a Remove has just been accepted and counted
C2_Witness ==
    /\ last.op = "action" /\ last.ok /\ last.act.kind = "Remove"
    /\ removed[color_idx(opposite(last.act.player))] > 0

\* C3: when the history holds the snapshots of N accepted actions, N calls of
\* undo all return Ok, the k-th of them restores the fields that held just
\* before the k-th most recent of those actions, and the last restores new().
C3_UndoInvertsAcceptedActions ==
    (Accepted = 1 .. Len(marks)) =>
        LET n == Len(marks)
        IN  /\ UndoOk(ThisGame, n)
            /\ \A k \in 1 .. n : CoreOf(UndoN(ThisGame, k)) = marks[n - k + 1].before
            /\ CoreOf(UndoN(ThisGame, n)) = CoreOf(new)
            /\ UndoN(ThisGame, n).history = << >>

\* a Remove and the action that made it due are accepted and not yet undone
C3_Witness ==
    /\ Accepted = 1 .. Len(marks)
    /\ Len(marks) > base
    /\ last.op = "action" /\ last.ok /\ last.act.kind = "Remove"

\* C4: the history holds exactly one snapshot per accepted action that has not
\* been undone; a call that was rejected has left none in it.
C4_HistoryCountsAcceptedActions ==
    /\ Len(history) = Cardinality(Accepted)
    /\ \A i \in 1 .. Len(marks) : marks[i].ok

\* C5: undo returns an error and changes nothing exactly when no accepted action
\* is left to undo; when it succeeds it restores the fields that held just
\* before the most recent accepted action that is not yet undone.
C5_UndoRevertsLastAccepted ==
    LET r == undo(ThisGame)
    IN  /\ ~r.ok <=> Accepted = {}
        /\ ~r.ok => r.g = ThisGame
        /\ r.ok => \E i \in Accepted :
                      /\ \A j \in Accepted : j <= i
                      /\ CoreOf(r.g) = marks[i].before

\* C6: while a removal is owed by P, every Place and Move by either player and
\* every Remove by the opponent of P is rejected, an accepted action is a Remove
\* by P and clears the pending removal; a Place or Move that leaves a removal
\* pending leaves it owed by the player who acted.
C6_OnlyOwedRemoveAccepted ==
    /\ must_remove # None =>
        \A a \in Action :
            LET r == action(ThisGame, a)
            IN  /\ (a.kind # "Remove" \/ a.player # must_remove) => ~r.ok
                /\ r.ok => r.g.must_remove = None
    /\ (last.op = "action" /\ last.ok /\ last.act.kind # "Remove" /\ must_remove # None)
        => must_remove = last.act.player

\* the owed Remove has just been accepted and nothing is pending any more
C6_Witness ==
    /\ last.op = "action" /\ last.ok /\ last.act.kind = "Remove"
    /\ marks[Len(marks)].before[5] = last.act.player
    /\ must_remove = None

\* C7: after an accepted Place(p) or Move(from, p) by P, a removal owed by P is
\* pending if and only if P occupies all three points of some line through p
\* and the opponent has a removable piece; otherwise nothing is pending.
C7_PendingIffMillThroughDestination ==
    \A a \in Action :
        LET r == action(ThisGame, a)
            closes == /\ MillThrough(r.g.board, a.to, a.player)
                      /\ \E q \in Points : Removable(r.g.board, q, opposite(a.player))
        IN  (r.ok /\ a.kind # "Remove") =>
                r.g.must_remove = IF closes THEN a.player ELSE None

\* a Move has just closed a mill and its player owes a removal
C7_Witness ==
    /\ last.op = "action" /\ last.ok /\ last.act.kind = "Move"
    /\ must_remove = last.act.player
    /\ MillThrough(board, last.act.to, last.act.player)

\* C8: while a removal is owed by P, Remove(p) by P is accepted if and only if p
\* holds a piece of the opponent of P that is not part of a completed mill, or
\* is, while every piece of that opponent on the board is part of one.
C8_RemoveAcceptedIffRemovable ==
    must_remove # None =>
        \A p \in PointArgs :
            action(ThisGame, Remove(must_remove, p)).ok
                <=> Removable(board, p, opposite(must_remove))

\* a piece that stood in a completed mill has just been captured
C8_Witness ==
    /\ last.op = "action" /\ last.ok /\ last.act.kind = "Remove"
    /\ Protected(marks[Len(marks)].before[1], last.act.to)
    /\ board[last.act.to] = None

\* C9: with no removal pending and nothing left to place for the player to move
\* P: with exactly 3 pieces, Move(from, to) by P is accepted for every own
\* source and empty destination, adjacent or not; with 4 or more pieces, a Move
\* that was accepted went to an empty point joined to its source by a line of
\* the board.
C9_FlyingOrAdjacentMove ==
    /\ (must_remove = None /\ unplaced[color_idx(to_move)] = 0
            /\ PiecesOn(board, to_move) = 3) =>
        \A f \in Points, t \in Points :
            (board[f] = to_move /\ board[t] = None)
                => action(ThisGame, Move(to_move, f, t)).ok
    /\ (last.op = "action" /\ last.ok /\ last.act.kind = "Move"
            /\ PiecesOn(marks[Len(marks)].before[1], last.act.player) >= 4) =>
        /\ marks[Len(marks)].before[1][last.act.to] = None
        /\ DiagramAdjacent(last.act.from, last.act.to)

\* C10: after an accepted Remove, and after an accepted Place or Move that
\* leaves no removal pending, the player to move is the opponent of the player
\* who acted; after a Place or Move that leaves a removal pending, the player
\* to move is who it was.
C10_TurnPassesUnlessRemovalOwed ==
    \A a \in Action :
        LET r == action(ThisGame, a)
        IN  r.ok =>
                r.g.to_move = IF a.kind # "Remove" /\ r.g.must_remove # None
                              THEN to_move
                              ELSE opposite(a.player)

\* a Place or Move has just left a removal pending and the turn with its player
C10_Witness ==
    /\ last.op = "action" /\ last.ok /\ last.act.kind # "Remove"
    /\ must_remove # None
    /\ to_move = last.act.player
    /\ marks[Len(marks)].before[2] = to_move

\* C11: in every reachable state where the removed counter of a colour c is 7 or
\* more, winner returns opposite(c), whoever is to move; and then every action
\* that is accepted leaves a state of which the same is true.
C11_SevenRemovedDecides ==
    \A c \in Color :
        removed[color_idx(c)] >= 7 =>
            /\ winner(ThisGame) = opposite(c)
            /\ \A a \in Action :
                LET r == action(ThisGame, a)
                IN  r.ok => /\ r.g.removed[color_idx(c)] >= 7
                            /\ winner(r.g) = opposite(c)

\* an action has just been accepted in a game that one side has already won by
\* captures, and the side that lost seven pieces is not the one to move
C11_Witness ==
    /\ last.op = "action" /\ last.ok
    /\ \E c \in Color :
        /\ removed[color_idx(c)] >= 7
        /\ to_move = opposite(c)
        /\ winner(ThisGame) = opposite(c)

\* C12: in every reachable state where both removed counters are below 7,
\* winner returns the opponent of the player to move exactly when action rejects
\* every action of the player to move, and None otherwise; also while a removal
\* is pending.
C12_StarvationIffNoLegalAction ==
    (removed[0] < 7 /\ removed[1] < 7) =>
        LET stuck == \A a \in Action : a.player = to_move => ~action(ThisGame, a).ok
        IN  winner(ThisGame) = IF stuck THEN opposite(to_move) ELSE None

\* C13: the adjacency table is the board of the diagram: two points are adjacent
\* exactly when they are neighbours on one of the 16 lines, the relation is
\* symmetric, and each corner point 0, 2, 4, ..., 22 has exactly 2 neighbours.
C13_TableIsDiagram ==
    LET slots == DOMAIN board
    IN  /\ \A a \in slots, b \in slots : are_adjacent(a, b) <=> DiagramAdjacent(a, b)
        /\ \A a \in slots, b \in slots : are_adjacent(a, b) => are_adjacent(b, a)
        /\ \A c \in {2 * i : i \in 0 .. 11} :
            Cardinality({b \in slots : are_adjacent(c, b)}) = 2

\* C14: with no removal pending and P to move: Place(p) by P is accepted if and
\* only if unplaced[P] > 0, p is in range and p is empty; every Move by P is
\* rejected while unplaced[P] > 0; every action of the other player is rejected.
C14_PlacementPhase ==
    must_remove = None =>
        LET idx == color_idx(to_move)
        IN  /\ \A p \in PointArgs :
                action(ThisGame, Place(to_move, p)).ok
                    <=> (unplaced[idx] > 0 /\ p \in Points /\ board[p] = None)
            /\ unplaced[idx] > 0 =>
                \A f \in PointArgs, t \in PointArgs :
                    ~action(ThisGame, Move(to_move, f, t)).ok
            /\ \A a \in Action :
                a.player = opposite(to_move) => ~action(ThisGame, a).ok

\* a player has just placed the last piece it had to place
C14_Witness ==
    /\ last.op = "action" /\ last.ok /\ last.act.kind = "Place"
    /\ must_remove = None
    /\ unplaced[color_idx(last.act.player)] = 0
    /\ to_move = opposite(last.act.player)

\* points out of range: the padding value, the next one and a far one
FarPoints == {INVALID, INVALID + 1, 10 * INVALID}

\* the actions that name at least one point out of range
FarAction ==
    LET any == Points \cup FarPoints
    IN  {Place(pl, x) : pl \in Color, x \in FarPoints}
            \cup {Remove(pl, x) : pl \in Color, x \in FarPoints}
            \cup UNION {{Move(pl, x, t), Move(pl, t, x)} :
                            pl \in Color, x \in FarPoints, t \in any}

\* C15: in every reachable state an action that names a point outside 0..23 (the
\* Place point, the Remove point or either Move endpoint) is rejected and leaves
\* the game, its history included, as it was.
C15_OutOfRangeRejected ==
    \A a \in FarAction :
        LET r == action(ThisGame, a)
        IN  ~r.ok /\ r.g = ThisGame

\* an action naming a point out of range has just been rejected while a removal
\* was owed and while the history was not empty
C15_Witness ==
    /\ last.op = "action" /\ ~last.ok /\ last.act = FarAct
    /\ must_remove # None
    /\ Len(history) = Len(marks) /\ Accepted = 1 .. Len(marks)

\* C16: new() yields a game with all 24 points empty, White to move, 9 unplaced
\* and 0 removed per side, no pending removal and an empty history; undo fails
\* on it and the actions it accepts are the Place actions of White on the
\* points 0..23.
C16_NewGame ==
    (last.op = "new" /\ base = 0) =>
        /\ \A p \in 0 .. 23 : board[p] = None
        /\ DOMAIN board = 0 .. 23
        /\ to_move = White
        /\ unplaced = [i \in 0 .. 1 |-> 9]
        /\ removed = [i \in 0 .. 1 |-> 0]
        /\ must_remove = None
        /\ history = << >>
        /\ ~undo(ThisGame).ok
        /\ \A a \in Action :
            action(ThisGame, a).ok
                <=> (a.player = White /\ a.kind = "Place" /\ a.from \in 0 .. 23)

\* the game new() has just made, on which undo fails
C16_Witness ==
    /\ last.op = "new" /\ base = 0
    /\ history = << >>
    /\ ~undo(ThisGame).ok
    /\ action(ThisGame, Place(White, 0)).ok

\* the token is an integer a point can be read from
IsInteger(tok) == tok \in {"0", "7", "24"}

\* the text is a player token, an action token and exactly the points the
\* action takes, each an integer
WellFormed(t) ==
    /\ Len(t) >= 3
    /\ t[1] \in {"W", "B"}
    /\ \/ t[2] \in {"P", "R"} /\ Len(t) = 3 /\ IsInteger(t[3])
       \/ t[2] = "M" /\ Len(t) = 4 /\ IsInteger(t[3]) /\ IsInteger(t[4])

\* C17: from_str yields an action only for a text with a known player token, a
\* known action token and exactly the right number of integer points (one after
\* P or R, two after M); every other text yields an error.
C17_ParseExactArity ==
    parsed # NotParsed => (parsed.ok <=> WellFormed(text))

\* C18: in every reachable state in which a removal is owed by P, Remove(p) by P
\* is accepted for at least one point p; and an accepted Place or Move that
\* closes a mill while the opponent has no removable piece leaves no removal
\* pending and passes the turn to the opponent.
C18_CaptureNeverStalls ==
    /\ must_remove # None =>
        \E p \in Points : action(ThisGame, Remove(must_remove, p)).ok
    /\ \A a \in Action :
        LET r == action(ThisGame, a)
        IN  (/\ r.ok /\ a.kind # "Remove"
             /\ MillThrough(r.g.board, a.to, a.player)
             /\ ~\E q \in Points : Removable(r.g.board, q, opposite(a.player)))
                => (r.g.must_remove = None /\ r.g.to_move = opposite(a.player))

\* a mill has just been closed against an opponent whose every piece stands in
\* a mill, and a capture is still possible
C18_Witness ==
    /\ last.op = "action" /\ last.ok /\ last.act.kind # "Remove"
    /\ must_remove = last.act.player
    /\ \A q \in Points : board[q] = opposite(must_remove) => Protected(board, q)
    /\ \E p \in Points : action(ThisGame, Remove(must_remove, p)).ok

\* C19: for each colour c, unplaced[c] + pieces of c on the board + removed[c]
\* = 9, removed[c] being the counter a Remove increments for the owner of the
\* captured piece; and every counter stays within 0..9.
C19_ConservationAndRange ==
    \A c \in Color :
        /\ unplaced[color_idx(c)] + PiecesOn(board, c) + removed[color_idx(c)] = 9
        /\ unplaced[color_idx(c)] \in 0 .. 9
        /\ removed[color_idx(c)] \in 0 .. 9
        /\ PiecesOn(board, c) \in 0 .. 9

\* a colour that has lost a piece has just placed another
C19_Witness ==
    /\ last.op = "action" /\ last.ok /\ last.act.kind = "Place"
    /\ removed[color_idx(last.act.player)] > 0
    /\ board[last.act.to] = last.act.player

\* C20: if a removal is pending for P then P is the player to move and P
\* occupies all three points of at least one line.
C20_PendingPlayerMovesAndHoldsMill ==
    must_remove # None =>
        /\ to_move = must_remove
        /\ \E i \in 1 .. Len(MILLS) : \A q \in Line(i) : board[q] = must_remove

\* undo has just brought back a position in which a removal is owed
C20_Witness ==
    /\ last.op = "undo" /\ last.ok
    /\ must_remove # None
    /\ Len(history) >= base

====
